---- MODULE Spec2Model ----
(***************************************************************************)
(* Model of turbopack/crates/turbo-tasks-backend/src/backend/mod.rs:       *)
(* the task registry (id factories, fingerprint map, transient table),     *)
(* the in-progress lifecycle of a task, the read path, and the snapshot    *)
(* barrier around in_progress_operations.                                  *)
(***************************************************************************)
EXTENDS Integers, Sequences, FiniteSets, Bags, TLC

(* ------------------------------ bounds --------------------------------- *)
\* width of a task id in the model (u32 in the code); the top bit is the
\* transient discriminant
TaskIdBits == 3
\* width of the in_progress_operations word (usize in the code); the top
\* bit is SNAPSHOT_REQUESTED_BIT
WordBits == 3
\* threads calling get_or_create_persistent_task, one call each
NumCallers == 2
\* distinct task fingerprints (CachedTaskType values)
NumFingerprints == 2
\* calls of create_transient_task
MaxTransient == 2
\* transient (root) tasks created in the full specification
MaxRoots == 1
\* calls of invalidate_task
MaxInvalidate == 1
\* operation threads of the snapshot model and entries per thread
NumOps == 2
MaxEnters == 1
\* log records appended by one operation
MaxSteps == 1
\* snapshots taken by the snapshotter
MaxSnapshots == 2

(* --------------------------- program constants ------------------------- *)
TRANSIENT_TASK_BIT == 2 ^ (TaskIdBits - 1)
U32_MAX == 2 ^ TaskIdBits - 1
SNAPSHOT_REQUESTED_BIT == 2 ^ (WordBits - 1)
WordMod == 2 ^ WordBits

TaskIds == 1 .. U32_MAX
Fingerprints == 1 .. NumFingerprints
Callers == 1 .. NumCallers
Ops == 1 .. NumOps
NoTask == 0

VARIABLES
    persisted_task_id_factory,  \* [next, max, free]: IdFactoryWithReuse
    transient_task_id_factory,  \* [next, max, free]
    persisted_task_cache_log,   \* sequence of <<fingerprint, id>>
    task_cache,                 \* fingerprint -> id, NoTask when absent
    transient_tasks,            \* set of ids in the transient-task table
    persisted_storage_log,      \* bag of CachedDataUpdate records
    storage,                    \* id -> data items of the task
    in_progress_operations,     \* the atomic word
    snapshot_request,           \* [snapshot_requested, suspended_operations]
    snapshot_lock,              \* holder of the snapshot_request mutex
    caller,                     \* position of each get_or_create caller
    transient_call,             \* position of the create_transient_task call
    returned,                   \* ids returned by the two creation calls
    schedule_requests,          \* host: schedule(id) calls not yet served
    executing,                  \* host: futures started and not finished
    awaiting_completion,        \* host: results submitted, completion due
    events,                     \* per task: [next, notified, started, listeners]
    completed_ret,              \* last return of task_execution_completed
    counts,                     \* calls made so far (for the Max* bounds)
    op,                         \* position of each operation thread
    snap,                       \* position of the snapshotter
    drained                     \* batches handed to persistence

vars == << persisted_task_id_factory, transient_task_id_factory,
           persisted_task_cache_log, task_cache, transient_tasks,
           persisted_storage_log, storage, in_progress_operations,
           snapshot_request, snapshot_lock, caller, transient_call, returned,
           schedule_requests, executing, awaiting_completion, events,
           completed_ret, counts, op, snap, drained >>

registryVars == << persisted_task_id_factory, transient_task_id_factory,
                   persisted_task_cache_log, task_cache, transient_tasks,
                   caller, transient_call, returned >>
hostVars == << schedule_requests, executing, awaiting_completion >>
snapshotVars == << in_progress_operations, snapshot_request, snapshot_lock,
                   op, snap, drained >>
taskVars == << storage, hostVars, events, completed_ret >>

(* ------------------------------ id factory ----------------------------- *)
IsTransient(id) == id >= TRANSIENT_TASK_BIT

NewFactory(start, max) == [next |-> start, max |-> max, free |-> << >>]

\* IdFactoryWithReuse::get: the reuse stack is preferred over the counter
FactoryGet(f) ==
    IF f.free # << >>
    THEN [id |-> f.free[Len(f.free)],
          factory |-> [f EXCEPT !.free = SubSeq(f.free, 1, Len(f.free) - 1)]]
    ELSE IF f.next <= f.max
    THEN [id |-> f.next, factory |-> [f EXCEPT !.next = f.next + 1]]
    ELSE [id |-> NoTask, factory |-> f]

FactoryReuse(f, id) == [f EXCEPT !.free = Append(f.free, id)]

\* ids handed out by a factory and not handed back
InUse(f, start) == (start .. (f.next - 1)) \ {f.free[i] : i \in DOMAIN f.free}

(* ------------------------------ data items ----------------------------- *)
NoInProgress ==
    [kind |-> "None", clean |-> FALSE, stale |-> FALSE,
     done_event |-> 0, start_event |-> 0]
NoOutput == [kind |-> "None", task |-> NoTask, cell |-> 0]
NoError == "None"
EmptyTask ==
    [InProgress |-> NoInProgress, Output |-> NoOutput, Error |-> NoError,
     Child |-> {}]

\* CachedDataItem::new_scheduled: a Scheduled item with fresh events
NewScheduled(e) ==
    [kind |-> "Scheduled", clean |-> FALSE, stale |-> FALSE,
     done_event |-> e, start_event |-> e]

\* one CachedDataUpdate: (task, item category, add|remove|update); a Child
\* record also carries the child id
Update(task_id, category, child, kind) ==
    [task |-> task_id, category |-> category, child |-> child, op |-> kind]

\* a storage update through a TaskGuard is logged for persistent tasks only
Logged(task_id, updates) ==
    IF IsTransient(task_id)
    THEN persisted_storage_log
    ELSE persisted_storage_log (+) updates

\* the log after the updates `entries` (category, kind) of task_id
Log(task_id, entries) ==
    Logged(task_id,
           SetToBag({Update(task_id, e[1], NoTask, e[2]) : e \in entries}))

(* -------------------------------- Init --------------------------------- *)
Init ==
    /\ persisted_task_id_factory = NewFactory(1, TRANSIENT_TASK_BIT - 1)
    /\ transient_task_id_factory = NewFactory(TRANSIENT_TASK_BIT, U32_MAX)
    /\ persisted_task_cache_log = << >>
    /\ task_cache = [f \in Fingerprints |-> NoTask]
    /\ transient_tasks = {}
    /\ persisted_storage_log = EmptyBag
    /\ storage = [t \in TaskIds |-> EmptyTask]
    /\ in_progress_operations = 0
    /\ snapshot_request =
           [snapshot_requested |-> FALSE, suspended_operations |-> {}]
    /\ snapshot_lock = 0
    /\ caller = [c \in Callers |->
                    [pc |-> "idle", task_type |-> 0, parent_task |-> NoTask,
                     task_id |-> NoTask, existing |-> NoTask, ret |-> NoTask]]
    /\ transient_call = [pc |-> "idle", task_id |-> NoTask]
    /\ returned = {}
    /\ schedule_requests = [t \in TaskIds |-> 0]
    /\ executing = [t \in TaskIds |-> 0]
    /\ awaiting_completion = [t \in TaskIds |-> 0]
    /\ events = [t \in TaskIds |->
                    [next |-> 1, notified |-> {}, started |-> {},
                     listeners |-> {}]]
    /\ completed_ret = [t \in TaskIds |-> "none"]
    /\ counts = [transient |-> 0, invalidate |-> 0, snapshots |-> 0]
    /\ op = [o \in Ops |-> [pc |-> "idle", enters |-> 0, steps |-> 0]]
    /\ snap = "idle"
    /\ drained = << >>

(* ----------------------- operations (operation.rs) --------------------- *)
\* ConnectChildOperation::run(parent, child): adds Child{child} under the
\* parent if absent; a child that is new (neither scheduled nor settled) gets
\* a Scheduled item and a schedule request
ChildIsNew(child_task) ==
    /\ storage[child_task].InProgress.kind = "None"
    /\ storage[child_task].Output.kind = "None"

ConnectChildEffect(parent_task, child_task) ==
    LET added == child_task \notin storage[parent_task].Child
        sched == added /\ ChildIsNew(child_task)
        s1 == [storage EXCEPT ![parent_task].Child = @ \cup {child_task}]
        s2 == IF sched
              THEN [s1 EXCEPT ![child_task].InProgress =
                                  NewScheduled(events[child_task].next)]
              ELSE s1
    IN  /\ storage' = s2
        /\ events' = IF sched
                     THEN [events EXCEPT ![child_task].next = @ + 1]
                     ELSE events
        /\ schedule_requests' =
               IF sched
               THEN [schedule_requests EXCEPT ![child_task] = @ + 1]
               ELSE schedule_requests
        /\ persisted_storage_log' =
               IF added
               THEN Logged(parent_task,
                           SetToBag({Update(parent_task, "Child",
                                            child_task, "add")}))
               ELSE persisted_storage_log

(* ------------------- get_or_create_persistent_task --------------------- *)
\* entry and task_cache.lookup_forward(&task_type)
LookupForward(c) ==
    /\ caller[c].pc = "idle"
    /\ \E task_type \in Fingerprints, parent_task \in returned :
          caller' = [caller EXCEPT ![c] =
              [@ EXCEPT !.task_type = task_type,
                        !.parent_task = parent_task,
                        !.existing = task_cache[task_type],
                        !.pc = IF task_cache[task_type] # NoTask
                               THEN "connect" ELSE "get"]]
    /\ UNCHANGED << persisted_task_id_factory, transient_task_id_factory,
                    persisted_task_cache_log, task_cache, transient_tasks,
                    transient_call, returned, persisted_storage_log,
                    taskVars, counts, snapshotVars >>

\* self.persisted_task_id_factory.get()
AllocatePersistentId(c) ==
    /\ caller[c].pc = "get"
    /\ LET got == FactoryGet(persisted_task_id_factory)
       IN  /\ persisted_task_id_factory' = got.factory
           /\ caller' = [caller EXCEPT ![c] =
                  [@ EXCEPT !.task_id = got.id,
                            !.pc = IF got.id = NoTask THEN "panicked"
                                   ELSE "insert"]]
    /\ UNCHANGED << transient_task_id_factory, persisted_task_cache_log,
                    task_cache, transient_tasks, transient_call, returned,
                    persisted_storage_log, taskVars, counts, snapshotVars >>

\* self.task_cache.try_insert(task_type, task_id): Err(existing) on collision
TryInsert(c) ==
    /\ caller[c].pc = "insert"
    /\ LET f == caller[c].task_type
       IN  IF task_cache[f] = NoTask
           THEN /\ task_cache' = [task_cache EXCEPT ![f] = caller[c].task_id]
                /\ caller' = [caller EXCEPT ![c].pc = "log",
                                            ![c].existing = caller[c].task_id]
           ELSE /\ task_cache' = task_cache
                /\ caller' = [caller EXCEPT ![c].pc = "reuse",
                                            ![c].existing = task_cache[f]]
    /\ UNCHANGED << persisted_task_id_factory, transient_task_id_factory,
                    persisted_task_cache_log, transient_tasks, transient_call,
                    returned, persisted_storage_log, taskVars, counts,
                    snapshotVars >>

\* a losing caller that forgets to hand its id back
ReuseLosingId_Leak(c) ==
    /\ caller[c].pc = "reuse"
    /\ caller' = [caller EXCEPT ![c].pc = "connect"]
    /\ UNCHANGED << persisted_task_id_factory, transient_task_id_factory,
                    persisted_task_cache_log, task_cache, transient_tasks,
                    transient_call, returned, persisted_storage_log,
                    taskVars, counts, snapshotVars >>

\* a losing caller that also records its own id in the cache-insert log
ReuseLosingId_Logs(c) ==
    /\ caller[c].pc = "reuse"
    /\ persisted_task_id_factory' =
           FactoryReuse(persisted_task_id_factory, caller[c].task_id)
    /\ persisted_task_cache_log' =
           Append(persisted_task_cache_log,
                  << caller[c].task_type, caller[c].task_id >>)
    /\ caller' = [caller EXCEPT ![c].pc = "connect"]
    /\ UNCHANGED << transient_task_id_factory, task_cache, transient_tasks,
                    transient_call, returned, persisted_storage_log, taskVars,
                    counts, snapshotVars >>

\* the losing caller: self.persisted_task_id_factory.reuse(task_id)
ReuseLosingId(c) ==
    /\ caller[c].pc = "reuse"
    /\ persisted_task_id_factory' =
           FactoryReuse(persisted_task_id_factory, caller[c].task_id)
    /\ caller' = [caller EXCEPT ![c].pc = "connect"]
    /\ UNCHANGED << transient_task_id_factory, persisted_task_cache_log,
                    task_cache, transient_tasks, transient_call, returned,
                    persisted_storage_log, taskVars, counts, snapshotVars >>

\* the winning caller: self.persisted_task_cache_log.lock().push(..)
PushCacheLog(c) ==
    /\ caller[c].pc = "log"
    /\ persisted_task_cache_log' =
           Append(persisted_task_cache_log,
                  << caller[c].task_type, caller[c].task_id >>)
    /\ caller' = [caller EXCEPT ![c].pc = "connect"]
    /\ UNCHANGED << persisted_task_id_factory, transient_task_id_factory,
                    task_cache, transient_tasks, transient_call, returned,
                    persisted_storage_log, taskVars, counts, snapshotVars >>

\* a return that forgets connect_child on the path that installed the id
ConnectAndReturn_WinnerSkipsConnect(c) ==
    /\ caller[c].pc = "connect"
    /\ IF caller[c].task_id = caller[c].existing
       THEN UNCHANGED << storage, events, schedule_requests,
                         persisted_storage_log >>
       ELSE ConnectChildEffect(caller[c].parent_task, caller[c].existing)
    /\ caller' = [caller EXCEPT ![c].pc = "done",
                                ![c].ret = caller[c].existing]
    /\ returned' = returned \cup {caller[c].existing}
    /\ UNCHANGED << persisted_task_id_factory, transient_task_id_factory,
                    persisted_task_cache_log, task_cache, transient_tasks,
                    transient_call, executing, awaiting_completion,
                    completed_ret, counts, snapshotVars >>

\* self.connect_child(parent_task, id, turbo_tasks); return id
ConnectAndReturn(c) ==
    /\ caller[c].pc = "connect"
    /\ ConnectChildEffect(caller[c].parent_task, caller[c].existing)
    /\ caller' = [caller EXCEPT ![c].pc = "done",
                                ![c].ret = caller[c].existing]
    /\ returned' = returned \cup {caller[c].existing}
    /\ UNCHANGED << persisted_task_id_factory, transient_task_id_factory,
                    persisted_task_cache_log, task_cache, transient_tasks,
                    transient_call, executing, awaiting_completion,
                    completed_ret, counts, snapshotVars >>

(* ------------------------ create_transient_task ------------------------ *)
\* create_transient_task drawing its id from the persistent factory
AllocateTransientId_WrongFactory ==
    /\ transient_call.pc = "idle"
    /\ counts.transient < MaxTransient
    /\ LET got == FactoryGet(persisted_task_id_factory)
       IN  /\ persisted_task_id_factory' = got.factory
           /\ transient_call' =
                  [pc |-> IF got.id = NoTask THEN "panicked" ELSE "insert",
                   task_id |-> got.id]
    /\ counts' = [counts EXCEPT !.transient = @ + 1]
    /\ UNCHANGED << transient_task_id_factory, persisted_task_cache_log,
                    task_cache, transient_tasks, caller, returned,
                    persisted_storage_log, taskVars, snapshotVars >>

\* let task_id = self.transient_task_id_factory.get()
AllocateTransientId ==
    /\ transient_call.pc = "idle"
    /\ counts.transient < MaxTransient
    /\ LET got == FactoryGet(transient_task_id_factory)
       IN  /\ transient_task_id_factory' = got.factory
           /\ transient_call' =
                  [pc |-> IF got.id = NoTask THEN "panicked" ELSE "insert",
                   task_id |-> got.id]
    /\ counts' = [counts EXCEPT !.transient = @ + 1]
    /\ UNCHANGED << persisted_task_id_factory, persisted_task_cache_log,
                    task_cache, transient_tasks, caller, returned,
                    persisted_storage_log, taskVars, snapshotVars >>

\* create_transient_task without the insert into transient_tasks
InsertTransient_Skipped ==
    /\ transient_call.pc = "insert"
    /\ transient_call' = [transient_call EXCEPT !.pc = "add"]
    /\ UNCHANGED << persisted_task_id_factory, transient_task_id_factory,
                    persisted_task_cache_log, task_cache, transient_tasks,
                    caller, returned, persisted_storage_log, taskVars, counts,
                    snapshotVars >>

\* self.transient_tasks.insert(task_id, ..)
InsertTransient ==
    /\ transient_call.pc = "insert"
    /\ transient_tasks' = transient_tasks \cup {transient_call.task_id}
    /\ transient_call' = [transient_call EXCEPT !.pc = "add"]
    /\ UNCHANGED << persisted_task_id_factory, transient_task_id_factory,
                    persisted_task_cache_log, task_cache, caller, returned,
                    persisted_storage_log, taskVars, counts, snapshotVars >>

\* create_transient_task scheduling the id before the Scheduled item exists
AddScheduled_Skipped ==
    /\ transient_call.pc = "add"
    /\ transient_call' = [transient_call EXCEPT !.pc = "schedule"]
    /\ UNCHANGED << persisted_task_id_factory, transient_task_id_factory,
                    persisted_task_cache_log, task_cache, transient_tasks,
                    caller, returned, persisted_storage_log, taskVars, counts,
                    snapshotVars >>

\* self.storage.access_mut(task_id).add(CachedDataItem::new_scheduled(task_id))
AddScheduled ==
    /\ transient_call.pc = "add"
    /\ LET t == transient_call.task_id
       IN  /\ storage' = [storage EXCEPT ![t].InProgress =
                             IF @.kind = "None"
                             THEN NewScheduled(events[t].next) ELSE @]
           /\ events' = [events EXCEPT ![t].next = @ + 1]
    /\ transient_call' = [transient_call EXCEPT !.pc = "schedule"]
    /\ UNCHANGED << persisted_task_id_factory, transient_task_id_factory,
                    persisted_task_cache_log, task_cache, transient_tasks,
                    caller, returned, persisted_storage_log, hostVars,
                    completed_ret, counts, snapshotVars >>

\* turbo_tasks.schedule(task_id); task_id
ScheduleTransient ==
    /\ transient_call.pc = "schedule"
    /\ schedule_requests' =
           [schedule_requests EXCEPT ![transient_call.task_id] = @ + 1]
    /\ returned' = returned \cup {transient_call.task_id}
    /\ transient_call' = [transient_call EXCEPT !.pc = "idle"]
    /\ UNCHANGED << persisted_task_id_factory, transient_task_id_factory,
                    persisted_task_cache_log, task_cache, transient_tasks,
                    caller, persisted_storage_log, storage, executing,
                    awaiting_completion, events, completed_ret, counts,
                    snapshotVars >>
(* --------------------------- task lifecycle ---------------------------- *)
\* a start that looks the task type up in the fingerprint map only
HasTaskType_PersistentOnly(task_id) ==
    \E f \in Fingerprints : task_cache[f] = task_id

\* lookup_reverse(&task_id) hits, or transient_tasks.get(&task_id) does
HasTaskType(task_id) ==
    \/ \E f \in Fingerprints : task_cache[f] = task_id
    \/ task_id \in transient_tasks

\* the executing variant built by try_start_task_execution
Promoted(item) ==
    [kind |-> "InProgress", clean |-> item.clean, stale |-> FALSE,
     done_event |-> item.done_event, start_event |-> 0]

\* the item task_execution_completed adds back for a stale execution
Restarted(item) ==
    [kind |-> "InProgress", clean |-> FALSE, stale |-> FALSE,
     done_event |-> item.done_event, start_event |-> 0]

\* what try_start_task_execution(task_id) returns in the current state
StartReturns(task_id) ==
    IF storage[task_id].InProgress.kind = "Scheduled" /\ HasTaskType(task_id)
    THEN "Some" ELSE "None"

\* try_start_task_execution(task_id), called by the host for one schedule
\* request: remove!(task, InProgress) takes the item out whatever its variant
TryStartTaskExecution(task_id) ==
    /\ schedule_requests[task_id] > 0
    /\ schedule_requests' = [schedule_requests EXCEPT ![task_id] = @ - 1]
    /\ LET item == storage[task_id].InProgress
       IN  IF item.kind = "Scheduled"
           THEN /\ storage' =
                       [storage EXCEPT ![task_id].InProgress = Promoted(item)]
                /\ events' = [events EXCEPT ![task_id].started =
                                 @ \cup {item.start_event}]
                /\ persisted_storage_log' =
                       Log(task_id, {<<"InProgress", "remove">>,
                                     <<"InProgress", "add">>})
                /\ executing' = [executing EXCEPT ![task_id] =
                                    IF StartReturns(task_id) = "Some"
                                    THEN @ + 1 ELSE @]
           ELSE /\ storage' =
                       [storage EXCEPT ![task_id].InProgress = NoInProgress]
                /\ persisted_storage_log' =
                       IF item.kind = "None" THEN persisted_storage_log
                       ELSE Log(task_id, {<<"InProgress", "remove">>})
                /\ UNCHANGED << events, executing >>
    /\ UNCHANGED << registryVars, awaiting_completion, completed_ret, counts,
                    snapshotVars >>

\* UpdateOutputOperation: installs Output (and Error for the fault variants)
\* and keeps InProgress
Results == {"OkCell", "OkOutput", "OkErr", "ErrSome", "ErrNone"}

OutputOf(task_id, result) ==
    CASE result = "OkCell" -> [kind |-> "Cell", task |-> task_id, cell |-> 1]
      [] result = "OkOutput" ->
             [kind |-> "Output", task |-> task_id, cell |-> 0]
      [] result = "OkErr" -> [kind |-> "Error", task |-> NoTask, cell |-> 0]
      [] OTHER -> [kind |-> "Panic", task |-> NoTask, cell |-> 0]

ErrorOf(result) ==
    CASE result \in {"OkCell", "OkOutput"} -> NoError
      [] result = "OkErr" -> "message"
      [] result = "ErrSome" -> "panic message"
      [] OTHER -> "panic"

\* task_execution_result(task_id, result), called when the future finishes
TaskExecutionResult(task_id, result) ==
    /\ executing[task_id] > 0
    /\ executing' = [executing EXCEPT ![task_id] = @ - 1]
    /\ awaiting_completion' = [awaiting_completion EXCEPT ![task_id] = @ + 1]
    /\ storage' = [storage EXCEPT
                      ![task_id].Output = OutputOf(task_id, result),
                      ![task_id].Error = ErrorOf(result)]
    /\ persisted_storage_log' = Log(task_id, {<<"Output", "add">>})
    /\ UNCHANGED << registryVars, schedule_requests, events, completed_ret,
                    counts, snapshotVars >>

\* what task_execution_completed(task_id, ..) returns in the current state
CompletedReturns(task_id) ==
    IF storage[task_id].InProgress.kind # "InProgress" THEN "panic"
    ELSE IF storage[task_id].InProgress.stale THEN "true" ELSE "false"

\* task_execution_completed(task_id, ..), called after task_execution_result;
\* a return value of true makes the host call try_start_task_execution again
TaskExecutionCompleted(task_id) ==
    /\ awaiting_completion[task_id] > 0
    /\ awaiting_completion' = [awaiting_completion EXCEPT ![task_id] = @ - 1]
    /\ completed_ret' =
           [completed_ret EXCEPT ![task_id] = CompletedReturns(task_id)]
    /\ LET item == storage[task_id].InProgress
       IN  CASE CompletedReturns(task_id) = "panic" ->
                \* panic!("Task execution completed, but task is not in
                \* progress"), after the item has been removed
                /\ storage' =
                       [storage EXCEPT ![task_id].InProgress = NoInProgress]
                /\ persisted_storage_log' =
                       IF item.kind = "None" THEN persisted_storage_log
                       ELSE Log(task_id, {<<"InProgress", "remove">>})
                /\ UNCHANGED << events, schedule_requests >>
             [] CompletedReturns(task_id) = "true" ->
                /\ storage' =
                       [storage EXCEPT ![task_id].InProgress = Restarted(item)]
                /\ persisted_storage_log' =
                       Log(task_id, {<<"InProgress", "remove">>,
                                     <<"InProgress", "add">>})
                /\ schedule_requests' =
                       [schedule_requests EXCEPT ![task_id] = @ + 1]
                /\ UNCHANGED events
             [] OTHER ->
                /\ storage' =
                       [storage EXCEPT ![task_id].InProgress = NoInProgress]
                /\ events' = [events EXCEPT ![task_id].notified =
                                 @ \cup {item.done_event}]
                /\ persisted_storage_log' =
                       Log(task_id, {<<"InProgress", "remove">>})
                /\ UNCHANGED schedule_requests
    /\ UNCHANGED << registryVars, executing, counts, snapshotVars >>

\* invalidate_task(task_id) -> invalidate(task_id) -> InvalidateOperation::run
InvalidateTask(task_id) ==
    /\ task_id \in returned
    /\ counts.invalidate < MaxInvalidate
    /\ counts' = [counts EXCEPT !.invalidate = @ + 1]
    /\ LET item == storage[task_id].InProgress
       IN  CASE item.kind = "InProgress" ->
                /\ storage' =
                       [storage EXCEPT ![task_id].InProgress.stale = TRUE]
                /\ persisted_storage_log' =
                       Log(task_id, {<<"InProgress", "update">>})
                /\ UNCHANGED << events, schedule_requests >>
             [] item.kind = "Scheduled" ->
                /\ storage' =
                       [storage EXCEPT ![task_id].InProgress.clean = FALSE]
                /\ persisted_storage_log' =
                       Log(task_id, {<<"InProgress", "update">>})
                /\ UNCHANGED << events, schedule_requests >>
             [] OTHER ->
                /\ storage' = [storage EXCEPT
                       ![task_id].Output = NoOutput,
                       ![task_id].Error = NoError,
                       ![task_id].InProgress =
                           NewScheduled(events[task_id].next)]
                /\ events' = [events EXCEPT ![task_id].next = @ + 1]
                /\ persisted_storage_log' =
                       Log(task_id, {<<"Output", "remove">>,
                                     <<"InProgress", "add">>})
                /\ schedule_requests' =
                       [schedule_requests EXCEPT ![task_id] = @ + 1]
    /\ UNCHANGED << registryVars, executing, awaiting_completion,
                    completed_ret, snapshotVars >>

(* ------------------------------ read path ------------------------------ *)
\* a read that reports a Cell output as TaskOutput
ReadResult_CellAsOutput(task_id) ==
    LET task == storage[task_id]
    IN  IF task.InProgress.kind # "None"
        THEN [kind |-> "listener", event |-> task.InProgress.done_event,
              task |-> NoTask, cell |-> 0, error |-> NoError]
        ELSE IF task.Output.kind \in {"Cell", "Output"}
        THEN [kind |-> "TaskOutput", event |-> 0, task |-> task.Output.task,
              cell |-> 0, error |-> NoError]
        ELSE IF task.Output.kind \in {"Error", "Panic"} /\ task.Error # NoError
        THEN [kind |-> "error", event |-> 0, task |-> NoTask, cell |-> 0,
              error |-> task.Error]
        ELSE [kind |-> "todo", event |-> 0, task |-> NoTask, cell |-> 0,
              error |-> NoError]

\* a read that looks up the Error item for Output = Error only
ReadResult_PanicFallsThrough(task_id) ==
    LET task == storage[task_id]
    IN  IF task.InProgress.kind # "None"
        THEN [kind |-> "listener", event |-> task.InProgress.done_event,
              task |-> NoTask, cell |-> 0, error |-> NoError]
        ELSE IF task.Output.kind = "Cell"
        THEN [kind |-> "TaskCell", event |-> 0, task |-> task.Output.task,
              cell |-> task.Output.cell, error |-> NoError]
        ELSE IF task.Output.kind = "Output"
        THEN [kind |-> "TaskOutput", event |-> 0, task |-> task.Output.task,
              cell |-> 0, error |-> NoError]
        ELSE IF task.Output.kind = "Error" /\ task.Error # NoError
        THEN [kind |-> "error", event |-> 0, task |-> NoTask, cell |-> 0,
              error |-> task.Error]
        ELSE [kind |-> "todo", event |-> 0, task |-> NoTask, cell |-> 0,
              error |-> NoError]

\* the value try_read_task_output_untracked(task_id, false) returns
ReadResult(task_id) ==
    LET task == storage[task_id]
    IN  IF task.InProgress.kind # "None"
        THEN [kind |-> "listener", event |-> task.InProgress.done_event,
              task |-> NoTask, cell |-> 0, error |-> NoError]
        ELSE IF task.Output.kind = "Cell"
        THEN [kind |-> "TaskCell", event |-> 0, task |-> task.Output.task,
              cell |-> task.Output.cell, error |-> NoError]
        ELSE IF task.Output.kind = "Output"
        THEN [kind |-> "TaskOutput", event |-> 0, task |-> task.Output.task,
              cell |-> 0, error |-> NoError]
        ELSE IF task.Output.kind \in {"Error", "Panic"} /\ task.Error # NoError
        THEN [kind |-> "error", event |-> 0, task |-> NoTask, cell |-> 0,
              error |-> task.Error]
        ELSE [kind |-> "todo", event |-> 0, task |-> NoTask, cell |-> 0,
              error |-> NoError]

\* try_read_task_output_untracked(task_id, false) returning Ok(Err(listener)):
\* done_event.listen() registers the listener
TryReadTaskOutputUntracked(task_id) ==
    /\ task_id \in returned
    /\ ReadResult(task_id).kind = "listener"
    /\ events' = [events EXCEPT ![task_id].listeners =
                     @ \cup {ReadResult(task_id).event}]
    /\ UNCHANGED << registryVars, persisted_storage_log, storage, hostVars,
                    completed_ret, counts, snapshotVars >>

(* --------------------------- snapshot barrier -------------------------- *)
Snapshotter == -1
Unlocked == 0

HasBit(value) == value >= SNAPSHOT_REQUESTED_BIT
LowBits(value) == value % SNAPSHOT_REQUESTED_BIT
FetchAdd(value, n) == (value + n) % WordMod
FetchSub(value, n) == (value - n + WordMod) % WordMod

\* operations_suspended.notify_all(): wakes the snapshotter if it waits
NotifyOperationsSuspended(s) == IF s = "waiting" THEN "woken" ELSE s

\* snapshot_completed.notify_all(): wakes every suspended operation
NotifySnapshotCompleted(ops) ==
    [o \in Ops |-> IF ops[o].pc = "sp_wait"
                   THEN [ops[o] EXCEPT !.pc = "sp_woken"] ELSE ops[o]]

\* whether the fetch_sub of operation_suspend_point, having read `value`,
\* notifies operations_suspended
SuspendNotifies(value) == value = SNAPSHOT_REQUESTED_BIT

\* an operation starts: the counter is incremented on entry
OperationEnter(o) ==
    /\ op[o].pc = "idle"
    /\ op[o].enters < MaxEnters
    /\ in_progress_operations' = FetchAdd(in_progress_operations, 1)
    /\ op' = [op EXCEPT ![o] =
                 [pc |-> "run", enters |-> @.enters + 1, steps |-> 0]]
    /\ UNCHANGED << registryVars, persisted_storage_log, taskVars, counts,
                    snapshot_request, snapshot_lock, snap, drained >>

\* one step of a running operation: a storage update of a persistent task,
\* recorded in the change log
OperationStep(o) ==
    /\ op[o].pc = "run"
    /\ op[o].steps < MaxSteps
    /\ persisted_storage_log' = Log(1, {<<"CellData", "add">>})
    /\ op' = [op EXCEPT ![o].steps = @ + 1]
    /\ UNCHANGED << registryVars, taskVars, counts, in_progress_operations,
                    snapshot_request, snapshot_lock, snap, drained >>

\* operation_suspend_point: the load of in_progress_operations; the call
\* returns at once when SNAPSHOT_REQUESTED_BIT is clear
SuspendPointLoad(o) ==
    /\ op[o].pc = "run"
    /\ op' = [op EXCEPT ![o].pc =
                 IF HasBit(in_progress_operations) THEN "sp_lock" ELSE "run"]
    /\ UNCHANGED << registryVars, persisted_storage_log, taskVars, counts,
                    in_progress_operations, snapshot_request, snapshot_lock,
                    snap, drained >>

\* a suspension that does not test snapshot_requested under the lock
SuspendPointLock_Unchecked(o) ==
    /\ op[o].pc = "sp_lock"
    /\ snapshot_lock = Unlocked
    /\ snapshot_request' =
           [snapshot_request EXCEPT !.suspended_operations = @ \cup {o}]
    /\ snapshot_lock' = o
    /\ op' = [op EXCEPT ![o].pc = "sp_sub"]
    /\ UNCHANGED << registryVars, persisted_storage_log, taskVars, counts,
                    in_progress_operations, snap, drained >>

\* self.snapshot_request.lock(); if snapshot_requested, the operation is
\* recorded in suspended_operations
SuspendPointLock(o) ==
    /\ op[o].pc = "sp_lock"
    /\ snapshot_lock = Unlocked
    /\ IF snapshot_request.snapshot_requested
       THEN /\ snapshot_request' =
                   [snapshot_request EXCEPT !.suspended_operations = @ \cup {o}]
            /\ snapshot_lock' = o
            /\ op' = [op EXCEPT ![o].pc = "sp_sub"]
       ELSE /\ op' = [op EXCEPT ![o].pc = "run"]
            /\ UNCHANGED << snapshot_request, snapshot_lock >>
    /\ UNCHANGED << registryVars, persisted_storage_log, taskVars, counts,
                    in_progress_operations, snap, drained >>

\* fetch_sub(1), the assertion, the notification of operations_suspended and
\* the start of the wait on snapshot_completed (which releases the lock)
SuspendPointSuspend(o) ==
    /\ op[o].pc = "sp_sub"
    /\ LET value == in_progress_operations
       IN  /\ in_progress_operations' = FetchSub(value, 1)
           /\ op' = [op EXCEPT ![o].pc =
                        IF HasBit(value) THEN "sp_wait" ELSE "assert_failed"]
           /\ snap' = IF HasBit(value) /\ SuspendNotifies(value)
                      THEN NotifyOperationsSuspended(snap) ELSE snap
    /\ snapshot_lock' = Unlocked
    /\ UNCHANGED << registryVars, persisted_storage_log, taskVars, counts,
                    snapshot_request, drained >>

\* a woken operation takes the lock again and evaluates the wait_while
\* condition: it keeps waiting while snapshot_requested
SuspendPointWake(o) ==
    /\ op[o].pc = "sp_woken"
    /\ snapshot_lock = Unlocked
    /\ IF snapshot_request.snapshot_requested
       THEN /\ op' = [op EXCEPT ![o].pc = "sp_wait"]
            /\ UNCHANGED snapshot_lock
       ELSE /\ op' = [op EXCEPT ![o].pc = "sp_add"]
            /\ snapshot_lock' = o
    /\ UNCHANGED << registryVars, persisted_storage_log, taskVars, counts,
                    in_progress_operations, snapshot_request, snap, drained >>

\* a resume that leaves the operation in suspended_operations
SuspendPointResume_NoRemove(o) ==
    /\ op[o].pc = "sp_add"
    /\ in_progress_operations' = FetchAdd(in_progress_operations, 1)
    /\ snapshot_lock' = Unlocked
    /\ op' = [op EXCEPT ![o].pc = "run"]
    /\ UNCHANGED << registryVars, persisted_storage_log, taskVars, counts,
                    snapshot_request, snap, drained >>

\* fetch_add(1), suspended_operations.remove(..), and the lock is dropped
SuspendPointResume(o) ==
    /\ op[o].pc = "sp_add"
    /\ in_progress_operations' = FetchAdd(in_progress_operations, 1)
    /\ snapshot_request' =
           [snapshot_request EXCEPT !.suspended_operations = @ \ {o}]
    /\ snapshot_lock' = Unlocked
    /\ op' = [op EXCEPT ![o].pc = "run"]
    /\ UNCHANGED << registryVars, persisted_storage_log, taskVars, counts,
                    snap, drained >>

\* an operation ends: the counter is decremented, and operations_suspended
\* is triggered when it reaches zero while a snapshot is requested
OperationExit(o) ==
    /\ op[o].pc = "run"
    /\ in_progress_operations' = FetchSub(in_progress_operations, 1)
    /\ snap' = IF FetchSub(in_progress_operations, 1) = SNAPSHOT_REQUESTED_BIT
               THEN NotifyOperationsSuspended(snap) ELSE snap
    /\ op' = [op EXCEPT ![o].pc = "idle"]
    /\ UNCHANGED << registryVars, persisted_storage_log, taskVars, counts,
                    snapshot_request, snapshot_lock, drained >>

\* the snapshotter marks the request and sets SNAPSHOT_REQUESTED (fetch_or)
SnapshotRequest ==
    /\ snap = "idle"
    /\ counts.snapshots < MaxSnapshots
    /\ snapshot_lock = Unlocked
    /\ snapshot_lock' = Snapshotter
    /\ snapshot_request' = [snapshot_request EXCEPT !.snapshot_requested = TRUE]
    /\ in_progress_operations' =
           IF HasBit(in_progress_operations) THEN in_progress_operations
           ELSE in_progress_operations + SNAPSHOT_REQUESTED_BIT
    /\ snap' = "check"
    /\ counts' = [counts EXCEPT !.snapshots = @ + 1]
    /\ UNCHANGED << registryVars, persisted_storage_log, taskVars, op,
                    drained >>

\* it waits on operations_suspended until the low bits are zero
SnapshotWait ==
    /\ \/ snap = "check" /\ snapshot_lock = Snapshotter
       \/ snap = "woken" /\ snapshot_lock = Unlocked
    /\ snap' = IF LowBits(in_progress_operations) = 0
               THEN "drain_storage" ELSE "waiting"
    /\ snapshot_lock' = Unlocked
    /\ UNCHANGED << registryVars, persisted_storage_log, taskVars, counts,
                    in_progress_operations, snapshot_request, op, drained >>

\* it drains the storage log
SnapshotDrainStorage ==
    /\ snap = "drain_storage"
    /\ drained' = Append(drained, [storage_log |-> persisted_storage_log,
                                   cache_log |-> << >>])
    /\ persisted_storage_log' = EmptyBag
    /\ snap' = "drain_cache"
    /\ UNCHANGED << registryVars, taskVars, counts, in_progress_operations,
                    snapshot_request, snapshot_lock, op >>

\* it drains the cache-insert log
SnapshotDrainCache ==
    /\ snap = "drain_cache"
    /\ drained' = [drained EXCEPT ![Len(drained)].cache_log =
                      persisted_task_cache_log]
    /\ persisted_task_cache_log' = << >>
    /\ snap' = "release"
    /\ UNCHANGED << persisted_task_id_factory, transient_task_id_factory,
                    task_cache, transient_tasks, caller, transient_call,
                    returned, persisted_storage_log, taskVars, counts,
                    in_progress_operations, snapshot_request, snapshot_lock,
                    op >>

\* it releases the barrier: snapshot_requested is reset, SNAPSHOT_REQUESTED
\* cleared and snapshot_completed broadcast
SnapshotRelease ==
    /\ snap = "release"
    /\ snapshot_lock = Unlocked
    /\ snapshot_request' = [snapshot_request EXCEPT !.snapshot_requested = FALSE]
    /\ in_progress_operations' =
           FetchSub(in_progress_operations, SNAPSHOT_REQUESTED_BIT)
    /\ op' = NotifySnapshotCompleted(op)
    /\ snap' = "idle"
    /\ UNCHANGED << registryVars, persisted_storage_log, taskVars, counts,
                    snapshot_lock, drained >>

(* --------------------------- specifications ---------------------------- *)
\* one call of get_or_create_persistent_task by thread c, step by step
GetOrCreatePersistentTask(c) ==
    \/ LookupForward(c)
    \/ AllocatePersistentId(c)
    \/ TryInsert(c)
    \/ ReuseLosingId(c)
    \/ PushCacheLog(c)
    \/ ConnectAndReturn(c)

\* calls of create_transient_task, step by step
CreateTransientTask ==
    \/ AllocateTransientId
    \/ InsertTransient
    \/ AddScheduled
    \/ ScheduleTransient

\* the host runtime serving schedule requests, and its clients
Lifecycle(results) ==
    \/ \E t \in TaskIds : TryStartTaskExecution(t)
    \/ \E t \in TaskIds, r \in results : TaskExecutionResult(t, r)
    \/ \E t \in TaskIds : TaskExecutionCompleted(t)
    \/ \E t \in TaskIds : InvalidateTask(t)
    \/ \E t \in TaskIds : TryReadTaskOutputUntracked(t)

\* The registry under concurrent creation calls (no execution).
RegistryNext ==
    \/ \E c \in Callers : GetOrCreatePersistentTask(c)
    \/ CreateTransientTask

RegistrySpec == Init /\ [][RegistryNext]_vars

\* The lifecycle of the tasks made by one create_transient_task call and by
\* concurrent get_or_create_persistent_task calls, driven by the host.
Next ==
    \/ \E c \in Callers : GetOrCreatePersistentTask(c)
    \/ CreateTransientTask /\ counts'.transient <= MaxRoots
    \/ Lifecycle({"OkCell", "ErrSome"})

Spec == Init /\ [][Next]_vars

\* Operations and the snapshotter around the barrier.
Operation(o) ==
    \/ OperationEnter(o)
    \/ OperationStep(o)
    \/ SuspendPointLoad(o)
    \/ SuspendPointLock(o)
    \/ SuspendPointSuspend(o)
    \/ SuspendPointWake(o)
    \/ SuspendPointResume(o)
    \/ OperationExit(o)

Snapshot ==
    \/ SnapshotRequest
    \/ SnapshotWait
    \/ SnapshotDrainStorage
    \/ SnapshotDrainCache
    \/ SnapshotRelease

SnapNext == (\E o \in Ops : Operation(o)) \/ Snapshot

SnapSpec == Init /\ [][SnapNext]_vars

\* every operation in flight reaches its next suspension point or exits,
\* suspended operations and the snapshotter are scheduled
SnapFairness ==
    /\ \A o \in Ops : WF_vars(SuspendPointLoad(o) \/ OperationExit(o))
    /\ \A o \in Ops : WF_vars(SuspendPointLock(o))
    /\ \A o \in Ops : WF_vars(SuspendPointSuspend(o))
    /\ \A o \in Ops : WF_vars(SuspendPointWake(o))
    /\ \A o \in Ops : WF_vars(SuspendPointResume(o))
    /\ WF_vars(Snapshot)

FairSnapSpec == SnapSpec /\ SnapFairness
(* ----------------------------- properties ------------------------------ *)
\* the snapshotter has been released from its wait on operations_suspended
\* and has not yet cleared SNAPSHOT_REQUESTED
SnapshotWindow == snap \in {"drain_storage", "drain_cache", "release"}

Suspended(o) == op[o].pc \in {"sp_wait", "sp_woken", "sp_add"}

\* C5 (snapshot quiescence): from the release of the snapshotter from its
\* wait until it clears SNAPSHOT_REQUESTED, the low bits of
\* in_progress_operations are zero.
C5_Quiescence ==
    SnapshotWindow => LowBits(in_progress_operations) = 0

\* C6 (barrier progress for the snapshotter): once SNAPSHOT_REQUESTED is set,
\* the low bits eventually reach zero and the snapshotter is released from
\* its wait.
C6_SnapshotterReleased ==
    (snap \in {"check", "waiting", "woken"}) ~> SnapshotWindow

\* C7 (barrier progress for operations): an operation suspended in
\* operation_suspend_point resumes once the snapshot it waited for has been
\* released (snapshot_requested false).
C7_OperationResumes ==
    \A o \in Ops :
        (Suspended(o) /\ ~snapshot_request.snapshot_requested)
            ~> ~Suspended(o)

\* ids the fingerprint map maps to
CachedIds == {task_cache[f] : f \in Fingerprints} \ {NoTask}

\* every get_or_create_persistent_task call has returned
AllReturned == \A c \in Callers : caller[c].pc \in {"idle", "done"}

\* C1 (identity): all get_or_create_persistent_task calls for one fingerprint
\* return the same task id, and once every call has returned the ids of the
\* persistent factory that are in use are exactly one per fingerprint that
\* was asked for (every id of a losing caller has been handed back).
C1_Identity ==
    /\ \A c1, c2 \in Callers :
          (/\ caller[c1].pc = "done"
           /\ caller[c2].pc = "done"
           /\ caller[c1].task_type = caller[c2].task_type)
          => caller[c1].ret = caller[c2].ret
    /\ AllReturned =>
          /\ InUse(persisted_task_id_factory, 1) = CachedIds
          /\ \A f, g \in Fingerprints :
                (task_cache[f] # NoTask /\ task_cache[f] = task_cache[g])
                => f = g
          /\ \A c \in Callers :
                caller[c].pc = "done"
                => task_cache[caller[c].task_type] = caller[c].ret

\* two calls raced on one fingerprint, the loser handed its id back, and both
\* have returned
C1_Witness ==
    /\ \E c1, c2 \in Callers :
          /\ c1 # c2
          /\ caller[c1].pc = "done"
          /\ caller[c2].pc = "done"
          /\ caller[c1].task_type = caller[c2].task_type
          /\ caller[c1].task_id # caller[c2].task_id
          /\ caller[c2].task_id # NoTask
          /\ caller[c2].ret = caller[c1].task_id
    /\ persisted_task_id_factory.free # << >>

\* C9 (invariant I1): every task id returned by get_or_create_persistent_task
\* or create_transient_task is in exactly one of task_cache and
\* transient_tasks.
C9_ExactlyOneTable ==
    \A id \in returned : (id \in CachedIds) # (id \in transient_tasks)

\* a persistent and a transient id have both been returned
C9_Witness ==
    /\ \E id \in returned : id \in CachedIds
    /\ \E id \in returned : id \in transient_tasks

\* C8 (transient isolation): no id with the transient bit appears in the
\* cache-insert log or the storage log (pending or drained), every id
\* returned by get_or_create_persistent_task lies in
\* [1, TRANSIENT_TASK_BIT - 1] and every id of create_transient_task lies in
\* [TRANSIENT_TASK_BIT, 2^32 - 1].
C8_TransientIsolation ==
    /\ \A i \in DOMAIN persisted_task_cache_log :
          ~IsTransient(persisted_task_cache_log[i][2])
    /\ \A u \in BagToSet(persisted_storage_log) :
          ~IsTransient(u.task) /\ ~IsTransient(u.child)
    /\ \A c \in Callers :
          caller[c].pc = "done"
          => caller[c].ret \in 1 .. (TRANSIENT_TASK_BIT - 1)
    /\ \A id \in transient_tasks : id \in TRANSIENT_TASK_BIT .. U32_MAX
    /\ transient_call.pc \in {"insert", "add", "schedule"}
          => transient_call.task_id \in TRANSIENT_TASK_BIT .. U32_MAX

\* a transient task has been created, executed and completed, a persistent
\* task has been created under it and has run, and both logs hold records
C8_Witness ==
    /\ \E id \in returned :
          /\ IsTransient(id)
          /\ storage[id].Output.kind # "None"
          /\ completed_ret[id] = "false"
          /\ storage[id].Child # {}
    /\ \E c \in Callers : caller[c].pc = "done"
    /\ persisted_task_cache_log # << >>
    /\ \E u \in BagToSet(persisted_storage_log) : u.category = "Output"

\* C2 (stale re-run): a task_execution_completed(T) of an executing task
\* that was invalidated (stale) returns true and leaves T with a Scheduled
\* item, so that the try_start_task_execution of the host's reschedule
\* returns an execution spec.
C2_StaleRerun ==
    [][\A t \in TaskIds :
          (/\ TaskExecutionCompleted(t)
           /\ storage[t].InProgress.kind = "InProgress"
           /\ storage[t].InProgress.stale)
          => /\ completed_ret'[t] = "true"
             /\ storage'[t].InProgress.kind = "Scheduled"
             /\ (StartReturns(t) = "Some")']_vars

\* C4 (frame): try_start_task_execution(T) of a task that is not Scheduled
\* leaves every data item of T in place, fires no event and appends nothing
\* to the change logs.
C4_StartIsNoOp ==
    [][\A t \in TaskIds :
          (/\ TryStartTaskExecution(t)
           /\ storage[t].InProgress.kind # "Scheduled")
          => /\ storage' = storage
             /\ events' = events
             /\ persisted_storage_log' = persisted_storage_log
             /\ persisted_task_cache_log' = persisted_task_cache_log]_vars

\* C10 (stale output is never published): after a task_execution_completed(T)
\* that returned true and until a later one returns false, a
\* try_read_task_output_untracked(T, false) returns a listener.
C10_StaleOutputHidden ==
    \A t \in TaskIds :
        completed_ret[t] = "true" => ReadResult(t).kind = "listener"

\* The lifecycle of transient tasks alone, with a host that serves every
\* schedule request and finishes every execution it started.
TaskNext == CreateTransientTask \/ Lifecycle(Results)

TaskSpec == Init /\ [][TaskNext]_vars

HostFairness ==
    \A t \in TaskIds :
        /\ WF_vars(TryStartTaskExecution(t))
        /\ WF_vars(\E r \in Results : TaskExecutionResult(t, r))
        /\ WF_vars(TaskExecutionCompleted(t))

FairTaskSpec == TaskSpec /\ HostFairness /\ WF_vars(CreateTransientTask)

\* C3 (listeners survive the restart): a listener obtained from
\* try_read_task_output_untracked(T, false) while T has an InProgress item is
\* eventually fired, once the host has served the schedule requests and
\* finished the executions.
C3_ListenerFires ==
    \A t \in TaskIds : \A e \in 1 .. (MaxTransient + MaxInvalidate + 1) :
        (e \in events[t].listeners) ~> (e \in events[t].notified)

\* T has completed an execution that was not stale and has no InProgress item
Settled(t) ==
    /\ storage[t].InProgress.kind = "None"
    /\ storage[t].Output.kind # "None"
    /\ completed_ret[t] = "false"

\* C11 (settled read): for a task with no InProgress item and an Output item
\* holding a value, try_read_task_output_untracked(T, false) returns the
\* value without a listener: TaskCell(task, cell) for Output = Cell,
\* TaskOutput(task) for Output = Output; after a completed execution whose
\* result was a value the read returns that value.
C11_SettledRead ==
    \A t \in TaskIds :
        /\ (storage[t].InProgress.kind = "None"
            /\ storage[t].Output.kind = "Cell")
           => ReadResult(t) =
                 [kind |-> "TaskCell", event |-> 0,
                  task |-> storage[t].Output.task,
                  cell |-> storage[t].Output.cell, error |-> NoError]
        /\ (storage[t].InProgress.kind = "None"
            /\ storage[t].Output.kind = "Output")
           => ReadResult(t) =
                 [kind |-> "TaskOutput", event |-> 0,
                  task |-> storage[t].Output.task, cell |-> 0,
                  error |-> NoError]
        /\ (Settled(t) /\ storage[t].Error = NoError)
           => /\ ReadResult(t).kind \in {"TaskCell", "TaskOutput"}
              /\ ReadResult(t).task = t

\* a task was created, started, got the result Ok(Cell(T, c)) and completed
\* with false; another one settled with Ok(Output(T))
C11_Witness ==
    \E t \in TaskIds :
        /\ t \in returned
        /\ Settled(t)
        /\ storage[t].Output = [kind |-> "Cell", task |-> t, cell |-> 1]
        /\ events[t].notified # {}

\* C12 (fault results surface as errors): after a fault result
\* (Ok(Err(message)), Err(Some(message)), Err(None)) and a completion that
\* returned false, the read returns the error outcome carrying the recorded
\* Error item, never a value, a listener or the output-not-available path.
C12_FaultReadsAsError ==
    \A t \in TaskIds :
        (Settled(t) /\ storage[t].Output.kind \in {"Error", "Panic"})
        => /\ storage[t].Error # NoError
           /\ ReadResult(t) =
                 [kind |-> "error", event |-> 0, task |-> NoTask, cell |-> 0,
                  error |-> storage[t].Error]

\* a task's execution panicked and it completed with false
C12_Witness ==
    \E t \in TaskIds :
        /\ t \in returned
        /\ Settled(t)
        /\ storage[t].Output.kind = "Panic"
        /\ storage[t].Error = "panic message"

\* the records of the cache-insert log, drained batches included, as
\* (batch, position) -> record; batch 0 is the current log
CacheLogRecords ==
    {<< 0, i >> : i \in DOMAIN persisted_task_cache_log}
        \cup UNION {{<< k, i >> : i \in DOMAIN drained[k].cache_log} :
                        k \in DOMAIN drained}

CacheLogRecord(r) ==
    IF r[1] = 0 THEN persisted_task_cache_log[r[2]]
    ELSE drained[r[1]].cache_log[r[2]]

RecordsOf(f) == {r \in CacheLogRecords : CacheLogRecord(r)[1] = f}

\* C13 (cache hit bookkeeping): for every fingerprint the cache-insert log
\* (drained batches plus current log) holds at most one record, it is the
\* record (F, id) of the caller whose try_insert succeeded, it is there once
\* every call has returned, and every parent of a returned call holds
\* Child{id}.
C13_OneRecordPerFingerprint ==
    /\ \A f \in Fingerprints :
          /\ Cardinality(RecordsOf(f)) <= 1
          /\ \A r \in RecordsOf(f) : CacheLogRecord(r) = << f, task_cache[f] >>
          /\ (AllReturned /\ task_cache[f] # NoTask)
             => Cardinality(RecordsOf(f)) = 1
    /\ \A c \in Callers :
          caller[c].pc = "done"
          => caller[c].ret \in storage[caller[c].parent_task].Child

\* two calls with different parents raced on one fingerprint: one installed
\* the id and logged it, the other lost try_insert; both returned and both
\* parents hold the child
C13_Witness ==
    \E c1, c2 \in Callers :
        /\ c1 # c2
        /\ caller[c1].pc = "done"
        /\ caller[c2].pc = "done"
        /\ caller[c1].task_type = caller[c2].task_type
        /\ caller[c1].ret = caller[c1].task_id
        /\ caller[c2].task_id \notin {NoTask, caller[c1].task_id}
        /\ Cardinality(RecordsOf(caller[c1].task_type)) = 1
        /\ caller[c1].parent_task # caller[c2].parent_task
        /\ caller[c1].ret \in storage[caller[c1].parent_task].Child
        /\ caller[c1].ret \in storage[caller[c2].parent_task].Child

\* The registry calls next to the snapshotter.
DrainNext == RegistryNext \/ Snapshot

DrainSpec == Init /\ [][DrainNext]_vars

\* C17 (no log append during a drain): from the moment the snapshotter
\* observes the zero in-progress count until it releases the barrier, no
\* record is appended to the cache-insert log or to the storage log, and the
\* logs are empty right after the drain.
C17_NoAppendDuringDrain ==
    [][(SnapshotWindow /\ SnapshotWindow')
          => /\ Len(persisted_task_cache_log') <= Len(persisted_task_cache_log)
             /\ persisted_storage_log' \sqsubseteq persisted_storage_log]_vars

\* caller c missed the fingerprint map and installed its own id
Installed(c) == caller[c].task_id # NoTask /\ caller[c].existing = caller[c].task_id

\* C14 (a newly created persistent task is scheduled): when
\* get_or_create_persistent_task misses the map and installs a new id, the
\* new task holds a Scheduled InProgress item on return, so a following
\* try_start_task_execution returns an execution spec and a read returns a
\* listener.
C14_NewTaskScheduled ==
    [][\A c \in Callers :
          (ConnectAndReturn(c) /\ Installed(c))
          => /\ storage'[caller[c].task_id].InProgress.kind = "Scheduled"
             /\ (StartReturns(caller[c].task_id) = "Some")'
             /\ (ReadResult(caller[c].task_id).kind = "listener")']_vars

\* C14 as amended: on return of the call that installed the id, the new task
\* has been scheduled: if it was not connected before, it now holds a
\* Scheduled item (a try_start_task_execution returns an execution spec, a
\* read returns a listener); otherwise a concurrent call that hit the map
\* has already returned the id and scheduled it.
C14_NewTaskHasBeenScheduled ==
    [][\A c \in Callers :
          (ConnectAndReturn(c) /\ Installed(c))
          => IF ChildIsNew(caller[c].task_id)
             THEN /\ storage'[caller[c].task_id].InProgress.kind = "Scheduled"
                  /\ schedule_requests'[caller[c].task_id] > 0
                  /\ (StartReturns(caller[c].task_id) = "Some")'
                  /\ (ReadResult(caller[c].task_id).kind = "listener")'
             ELSE \E c2 \in Callers \ {c} :
                     /\ caller[c2].pc = "done"
                     /\ caller[c2].ret = caller[c].task_id]_vars

\* the call that installed the id has returned, a concurrent call on the
\* same fingerprint has returned too, and the task holds a Scheduled item
C14_Witness ==
    \E c, c2 \in Callers :
        /\ c # c2
        /\ caller[c].pc = "done"
        /\ Installed(c)
        /\ caller[c2].pc = "done"
        /\ caller[c2].ret = caller[c].task_id
        /\ storage[caller[c].task_id].InProgress.kind = "Scheduled"

\* C15 (create_transient_task): the id is in the transient range and differs
\* from every id returned earlier; when the host's schedule(id) is called the
\* id is registered in transient_tasks and the task holds a Scheduled item,
\* and schedule is called once per call; no schedule request of a transient
\* task is pending before that.
C15_TransientScheduledLast ==
    /\ [][ScheduleTransient
             => /\ transient_call.task_id \in TRANSIENT_TASK_BIT .. U32_MAX
                /\ transient_call.task_id \notin returned
                /\ transient_call.task_id \in transient_tasks
                /\ storage[transient_call.task_id].InProgress.kind = "Scheduled"
                /\ StartReturns(transient_call.task_id) = "Some"
                /\ schedule_requests'[transient_call.task_id] = 1]_vars
    /\ [](\A t \in TaskIds :
             (IsTransient(t) /\ t \notin returned) => schedule_requests[t] = 0)
    /\ [](transient_call.pc \in {"insert", "add", "schedule"}
             => /\ schedule_requests[transient_call.task_id] = 0
                /\ storage[transient_call.task_id].InProgress.kind
                       \in {"None", "Scheduled"})

\* two transient tasks have been created and returned with different ids, the
\* host has started one and the other is still Scheduled
C15_Witness ==
    \E t, u \in returned :
        /\ t # u
        /\ IsTransient(t)
        /\ IsTransient(u)
        /\ {t, u} \subseteq transient_tasks
        /\ transient_call.pc = "idle"
        /\ storage[t].InProgress.kind = "InProgress"
        /\ executing[t] = 1
        /\ storage[u].InProgress.kind = "Scheduled"

\* operations inside operation_suspend_point that have recorded themselves
InSuspendedSet == {o \in Ops : op[o].pc \in {"sp_sub", "sp_wait", "sp_woken", "sp_add"}}

\* operations that have entered and count as in progress
Counted == {o \in Ops : op[o].pc \in {"run", "sp_lock", "sp_sub"}}

\* C18 (suspension accounting): suspended_operations holds exactly the
\* operations blocked inside operation_suspend_point, the low bits of
\* in_progress_operations equal the number of entered operations that are
\* not suspended (so both are restored when a call returns), and a call made
\* when no snapshot is pending changes neither and does not block.
C18_SuspensionAccounting ==
    /\ [](snapshot_request.suspended_operations = InSuspendedSet)
    /\ [](LowBits(in_progress_operations) = Cardinality(Counted))
    /\ [][\A o \in Ops :
             (SuspendPointLoad(o) /\ ~HasBit(in_progress_operations))
             => /\ op'[o].pc = "run"
                /\ in_progress_operations' = in_progress_operations
                /\ snapshot_request' = snapshot_request]_vars

\* an operation suspended for a snapshot, resumed after the release and is
\* running again while the other one is still suspended
C18_Witness ==
    \E o, p \in Ops :
        /\ o # p
        /\ op[o].pc = "run"
        /\ op[o].steps > 0
        /\ op[p].pc \in {"sp_woken", "sp_add"}
        /\ ~snapshot_request.snapshot_requested
        /\ counts.snapshots > 0
        /\ LowBits(in_progress_operations) = 1

\* C19 (the assertion never fails, the counter never underflows): whenever an
\* operation holding the snapshot_request lock has seen snapshot_requested
\* and executes fetch_sub(1), the value it reads has SNAPSHOT_REQUESTED_BIT
\* set and low bits of at least 1.
C19_AssertionHolds ==
    \A o \in Ops :
        /\ op[o].pc # "assert_failed"
        /\ op[o].pc = "sp_sub"
           => /\ snapshot_lock = o
              /\ snapshot_request.snapshot_requested
              /\ HasBit(in_progress_operations)
              /\ LowBits(in_progress_operations) >= 1

\* one operation has suspended and the last running one is about to execute
\* its fetch_sub
C19_Witness ==
    \E o, p \in Ops :
        /\ op[o].pc = "sp_wait"
        /\ op[p].pc = "sp_sub"
        /\ in_progress_operations = SNAPSHOT_REQUESTED_BIT + 1

\* C20 (start returns a spec iff it promoted): no try_start_task_execution(T)
\* on a task id returned by get_or_create_persistent_task or
\* create_transient_task replaces the Scheduled item by an executing one and
\* then returns None; a call that returns an execution spec has promoted.
C20_PromotedIffStarted ==
    /\ [][\A t \in TaskIds :
             TryStartTaskExecution(t)
             => /\ (storage[t].InProgress.kind = "Scheduled"
                    /\ storage'[t].InProgress.kind = "InProgress")
                   <=> StartReturns(t) = "Some"
                /\ StartReturns(t) = "Some" <=> executing'[t] = executing[t] + 1
       ]_vars
    /\ [](\A t \in TaskIds :
             storage[t].InProgress.kind = "InProgress" /\ ~storage[t].InProgress.stale
             => executing[t] + awaiting_completion[t] + schedule_requests[t] >= 1)

\* a persistent and a transient task have both been started by the host
C20_Witness ==
    \E t, u \in returned :
        /\ IsTransient(t)
        /\ ~IsTransient(u)
        /\ storage[t].InProgress.kind = "InProgress"
        /\ storage[u].InProgress.kind = "InProgress"
        /\ executing[t] = 1
        /\ executing[u] = 1

====
